---- MODULE Spec2Model ----
(***************************************************************************)
(* State-machine model of the graph chat agent of time_series_helper:     *)
(*   src/agents/chat_agent.py   GraphChatAgent (graph topology, turn)     *)
(*   src/agents/graph_nodes.py  GraphNodes (nodes, router, message build) *)
(*   src/agents/models.py       ChatState, SupervisorDecision, ...        *)
(*   src/agents/tools.py        get_tools (the tool registry)             *)
(*                                                                         *)
(* Texts (Python str) are sequences of tokens, so that an f-string is a   *)
(* concatenation and "contains" is a sub-sequence test; "" is << >>.       *)
(* Python dicts are sequences of <<key, value>> pairs with unique keys    *)
(* (insertion ordered).  Confidence values are in tenths (9 is 0.9).      *)
(* The language model and the tools are external: every call of them is   *)
(* a nondeterministic choice among the results it can give (a value of    *)
(* the expected shape, or an exception with a detail text).               *)
(***************************************************************************)
EXTENDS Integers, Sequences, FiniteSets, TLC

VARIABLES
    is_initialized,  \* GraphChatAgent.is_initialized
    memory,          \* memory.chat_memory.messages: sequence of [type, content]
    pc,              \* where the turn is: "idle" or the next graph node
    state,           \* the ChatState of the running turn (None when idle)
    steps,           \* graph supersteps (node executions) used by this run
    path,            \* the nodes executed by this run, in order
    loc,             \* locals of a running tool_selector_node (None otherwise)
    calls,           \* calls made by the last tool_selector_node execution
    gw,              \* the last Gateway exchange of the running node (prompt, reply)
    result,          \* what the last process_message call returned or raised
    turn,            \* number of process_message calls made so far
    caller,          \* the frontend session that submitted the running turn
    owners,          \* for each entry of memory, the session whose turn added it
    threads,         \* the script threads of the sessions: where each one is in its call
    agent_factory,   \* the module global _agent_factory (None or a factory)
    chat_agent,      \* the module global _chat_agent (None or the index of an agent)
    agents           \* the agents created so far: config of their factory, History

vars ==
    <<is_initialized, memory, pc, state, steps, path, loc, calls, gw, result, turn,
      caller, owners, threads, agent_factory, chat_agent, agents>>

\* The variables of one agent's turns, and those of the process around it.
turnVars ==
    <<is_initialized, memory, pc, state, steps, path, loc, calls, gw, result, turn,
      caller, owners>>

processVars == <<agent_factory, chat_agent, agents>>

None == [tag |-> "None"]

(***************************************************************************)
(* Bounds of the model (not program constants).                            *)
(***************************************************************************)
MaxTurns == 2

(***************************************************************************)
(* Program constants.                                                      *)
(***************************************************************************)
max_iterations == 5     \* tool_selector_node: max_iterations = 5
history_limit == 6      \* _create_simple_messages: history_limit default
response_history_limit == 2  \* _create_response_messages: history_limit=2
\* compiled_graph.invoke(initial_state) runs with the graph runner's default
\* recursion limit: a run that needs more supersteps fails with an error.
\* (Whether the runner counts its own start step is the runner's business;
\* no property below depends on the exact number.)
RecursionLimit == 25

(***************************************************************************)
(* Input domains: what the caller, the language model and the tools give.  *)
(***************************************************************************)
UserMessages == {<<"check the sensor">>}
\* rewritten_message is any str: the structured reply can carry the empty one.
RewrittenMessages == {<<"show statistics of SENSOR-001">>, << >>}
ReplyTexts == {<<"answer">>}
\* Texts the Gateway can return to the Responder's synthesis call: a reply
\* can come back with empty content.
SynthesisTexts == ReplyTexts \cup {<< >>}
Details == {<<"boom">>}
Intents == {"tool_required", "conversation", "help", "unclear", "error"}

\* SupervisorDecision values the structured Gateway call can return.
Decisions ==
    {[intent |-> i, confidence |-> IF n THEN 4 ELSE 9, needs_rewrite |-> n,
      reasoning |-> <<"why">>] : i \in Intents, n \in BOOLEAN}

\* RewriterResponse values the structured Gateway call can return.
Rewrites ==
    {[rewritten_message |-> r, clarifications_added |-> <<"asset">>,
      confidence |-> 8] : r \in RewrittenMessages}

\* The tool names one Gateway reply can ask for, in request order: the menu
\* of a whole turn, and the richer menu used to examine the tool loop alone.
TurnCallLists == {<<"get_data", "no_such_tool">>}

DispatchCallLists == {<<"get_data", "no_such_tool", "get_statistics">>, <<"get_timeseries">>}

\* The frontend sessions (browser tabs) served by the process; the turns of
\* one conversation come from one of them.
Sessions == {"session 1", "session 2"}

OneSession == {"session 1"}

\* Texts a tool can return.
Observations == {<<"3 assets">>, <<"4 assets">>}

\* get_tools(): the names of the registered tools, in registry order.
get_tools == <<"get_data", "get_timeseries", "get_statistics", "get_last_value">>

ToolNames == {get_tools[i] : i \in 1..Len(get_tools)}

\* What each tool can return in a whole turn (one text), and in the tool loop
\* examined alone (get_timeseries can answer differently from call to call).
TurnObservations == [n \in ToolNames |-> {<<"3 assets">>}]

DispatchObservations ==
    [n \in ToolNames |-> IF n = "get_timeseries" THEN Observations ELSE {<<"3 assets">>}]

(***************************************************************************)
(* Fixed texts of the program.                                             *)
(***************************************************************************)
APOLOGY_FORMAT ==
    <<"I apologize, but I couldn't generate a proper response. Please try again.">>
APOLOGY_ERROR ==
    <<"I'm sorry, I encountered an error processing your request. Please try again.">>
RECURSION_ERROR == <<"Recursion limit reached without hitting a stop condition">>
FINAL_INSTRUCTION ==
    <<"Please provide your final answer based on the information gathered.">>

(***************************************************************************)
(* Python dict as an insertion-ordered sequence of <<key, value>> pairs.   *)
(***************************************************************************)
DictKeys(d) == [i \in 1..Len(d) |-> d[i][1]]

DictHas(d, k) == \E i \in 1..Len(d) : d[i][1] = k

DictGet(d, k) == d[CHOOSE i \in 1..Len(d) : d[i][1] = k][2]

\* d[k] = v: an existing key keeps its position, a new key goes last.
DictSet(d, k, v) ==
    IF DictHas(d, k)
    THEN [i \in 1..Len(d) |-> IF d[i][1] = k THEN <<k, v>> ELSE d[i]]
    ELSE Append(d, <<k, v>>)

\* Mutant: the oldest n entries instead of the most recent (seq[:n]).
LastN_oldest(seq, n) ==
    IF Len(seq) <= n THEN seq ELSE SubSeq(seq, 1, n)

\* seq[-n:] of Python
LastN(seq, n) ==
    IF Len(seq) <= n THEN seq ELSE SubSeq(seq, Len(seq) - n + 1, Len(seq))

(***************************************************************************)
(* models.ChatState(original_message=message): the defaults of the fields. *)
(***************************************************************************)
\* Mutant: the counter of the new Turn State starts from what earlier turns
\* left behind.
ChatState_carries_count(message) ==
    [original_message |-> message,
     current_message |-> <<>>,
     supervisor_decision |-> None,
     rewriter_response |-> None,
     tool_results |-> <<>>,
     final_response |-> <<>>,
     metadata |-> <<>>,
     iteration_count |-> Len(memory)]

ChatState(message) ==
    [original_message |-> message,
     current_message |-> <<>>,
     supervisor_decision |-> None,
     rewriter_response |-> None,
     tool_results |-> <<>>,
     final_response |-> <<>>,
     metadata |-> <<>>,
     iteration_count |-> 0]

(***************************************************************************)
(* GraphNodes.supervisor_router: the label of the edge to follow.          *)
(***************************************************************************)
\* Mutant: the router forgets that a rewrite was already made.
supervisor_router_ignores_rewrite(s) ==
    LET decision == s.supervisor_decision IN
    IF decision = None THEN "end"
    ELSE IF decision.needs_rewrite THEN "rewrite"
    ELSE IF decision.intent = "tool_required" THEN "tools"
    ELSE "respond"

supervisor_router(s) ==
    LET decision == s.supervisor_decision IN
    IF decision = None THEN "end"
    ELSE IF decision.needs_rewrite /\ s.rewriter_response = None THEN "rewrite"
    ELSE IF decision.intent = "tool_required" THEN "tools"
    ELSE "respond"

\* _build_graph: the mapping of add_conditional_edges("supervisor", ...).
ConditionalEdge(label) ==
    CASE label = "rewrite" -> "rewriter"
      [] label = "tools" -> "tool_selector"
      [] label = "respond" -> "response_generator"
      [] label = "end" -> "END"

\* _build_graph: the node that follows `node` once it returned state s.
NextNode(node, s) ==
    CASE node = "supervisor" -> ConditionalEdge(supervisor_router(s))
      [] node = "rewriter" -> "supervisor"
      [] node = "tool_selector" -> "response_generator"
      [] node = "response_generator" -> "END"

Nodes == {"supervisor", "rewriter", "tool_selector", "response_generator"}

(***************************************************************************)
(* GraphNodes._create_simple_messages and its two helpers.                 *)
(***************************************************************************)
Msg(type, content) == [type |-> type, content |-> content]

\* _create_tool_summary: "{name}: {result}" joined by "; ".
RECURSIVE create_tool_summary(_)
create_tool_summary(tool_results) ==
    IF tool_results = <<>> THEN <<>>
    ELSE LET head == <<tool_results[1][1], ": ">> \o tool_results[1][2] IN
         IF Len(tool_results) = 1 THEN head
         ELSE head \o <<"; ">> \o create_tool_summary(Tail(tool_results))

create_simple_messages(system_prompt, user_message, additional_context, include_history, limit, tool_results) ==
    <<Msg("system", <<system_prompt>>)>>
    \o (IF include_history /\ memory # <<>> THEN LastN(memory, limit) ELSE <<>>)
    \o (IF tool_results # <<>> /\ create_tool_summary(tool_results) # <<>>
        THEN <<Msg("ai", <<"Context: ">> \o create_tool_summary(tool_results))>>
        ELSE <<>>)
    \o (IF additional_context # None /\ additional_context # <<>>
        THEN <<Msg("ai", additional_context)>> ELSE <<>>)
    \o <<Msg("human", user_message)>>

create_response_messages(s) ==
    create_simple_messages("response_system", s.original_message, None, TRUE,
                           response_history_limit, s.tool_results)

\* One Gateway call: the messages sent, and the reply: kind is "value" (a
\* value of the requested schema, kept in text), "text" (a message with content and no tool
\* calls), "calls" (a message with tool calls), "none" (a reply without
\* content) or "raise" (the call failed, text is the detail).
Exchange(prompt, kind, text, tool_calls) ==
    [prompt |-> prompt, kind |-> kind, text |-> text, tool_calls |-> tool_calls]

(***************************************************************************)
(* The graph runner: one node execution is one superstep.                  *)
(***************************************************************************)
CanRun(node) == pc = node /\ steps < RecursionLimit

\* A node returned state s: record it and follow the edge out of the node.
Ran(node, s) ==
    /\ state' = s
    /\ pc' = NextNode(node, s)
    /\ steps' = steps + 1
    /\ path' = Append(path, node)
    /\ result' = result

\* How a node's except clause ends the node: it returns a state, or raises.
Returns(s) == [kind |-> "return", state |-> s]
Raises(e) == [kind |-> "raise", error |-> e]

\* process_message: AgentResponse, and the except clause around the graph run.
AgentResponse(text, metadata) == [text |-> text, metadata |-> metadata]

\* Mutant: the except clause leaves out the type entry.
GraphFailed_without_type(e) == AgentResponse(APOLOGY_ERROR, [error |-> e])

GraphFailed(e) ==
    AgentResponse(APOLOGY_ERROR, [error |-> e, type |-> <<"graph_execution_error">>])

\* A node ended. An exception leaving a node leaves compiled_graph.invoke too
\* and is caught by process_message, which returns at once.
Finish(node, outcome) ==
    IF outcome.kind = "return"
    THEN Ran(node, outcome.state)
    ELSE /\ state' = None
         /\ pc' = "idle"
         /\ steps' = steps
         /\ path' = Append(path, node)
         /\ result' = GraphFailed(outcome.error)

(***************************************************************************)
(* GraphChatAgent.initialize                                               *)
(***************************************************************************)
initialize ==
    /\ pc = "idle"
    /\ ~is_initialized
    /\ is_initialized' = TRUE
    /\ UNCHANGED <<memory, pc, state, steps, path, loc, calls, gw, result, turn, caller, owners>>
    /\ UNCHANGED <<threads, agent_factory, chat_agent, agents>>

(***************************************************************************)
(* GraphNodes.supervisor_node                                              *)
(***************************************************************************)
\* Mutant: the Decision is stored, current_message is left as it was.
SupervisorOk_keeps_message(s, decision) ==
    [s EXCEPT !.supervisor_decision = decision,
              !.iteration_count = s.iteration_count + 1]

SupervisorOk(s, decision) ==
    LET message_to_analyze ==
            IF s.current_message # <<>> THEN s.current_message
            ELSE s.original_message
    IN [s EXCEPT !.supervisor_decision = decision,
                 !.current_message = message_to_analyze,
                 !.iteration_count = s.iteration_count + 1]

\* Mutant: the except clause stores no Decision.
SupervisorFailed_without_decision(s, e) == Returns(s)

\* Mutant: the Decision of the except clause asks for a rewrite.
SupervisorFailed_asks_rewrite(s, e) ==
    Returns([s EXCEPT !.supervisor_decision =
        [intent |-> "error", confidence |-> 0, needs_rewrite |-> TRUE,
         reasoning |-> <<"Error in supervisor: ">> \o e]])

SupervisorFailed(s, e) ==
    Returns([s EXCEPT !.supervisor_decision =
        [intent |-> "error", confidence |-> 0, needs_rewrite |-> FALSE,
         reasoning |-> <<"Error in supervisor: ">> \o e]])

\* The messages of the structured Gateway call of the node.
SupervisorPrompt(s) ==
    create_simple_messages("supervisor_system",
                           IF s.current_message # <<>> THEN s.current_message
                           ELSE s.original_message,
                           None, TRUE, history_limit, <<>>)

supervisor_node ==
    /\ CanRun("supervisor")
    /\ \/ \E decision \in Decisions :
            /\ Ran("supervisor", SupervisorOk(state, decision))
            /\ gw' = Exchange(SupervisorPrompt(state), "value", decision, <<>>)
       \/ \E e \in Details :
            /\ Finish("supervisor", SupervisorFailed(state, e))
            /\ gw' = Exchange(SupervisorPrompt(state), "raise", e, <<>>)
    /\ UNCHANGED <<is_initialized, memory, loc, calls, turn, caller, owners, threads, agent_factory, chat_agent, agents>>

(***************************************************************************)
(* GraphNodes.rewriter_node                                                *)
(***************************************************************************)
\* Mutant: the rewritten text is written over the user's message.
RewriterOk_overwrites_original(s, rewrite) ==
    [s EXCEPT !.rewriter_response = rewrite,
              !.original_message = rewrite.rewritten_message,
              !.current_message = rewrite.rewritten_message]

RewriterOk(s, rewrite) ==
    [s EXCEPT !.rewriter_response = rewrite,
              !.current_message = rewrite.rewritten_message]

\* Mutant: the except clause empties current_message.
RewriterFailed_clears_message(s, e) == Returns([s EXCEPT !.current_message = << >>])

RewriterFailed(s, e) ==
    Returns([s EXCEPT !.current_message = s.original_message])

\* The messages of the structured Gateway call of the node.
RewriterPrompt(s) ==
    create_simple_messages("rewriter_system", s.original_message,
                           IF s.supervisor_decision # None
                              /\ s.supervisor_decision.reasoning # <<>>
                           THEN <<"Supervisor reasoning: ">> \o s.supervisor_decision.reasoning
                           ELSE None,
                           TRUE, history_limit, <<>>)

rewriter_node ==
    /\ CanRun("rewriter")
    /\ \/ \E rewrite \in Rewrites :
            /\ Ran("rewriter", RewriterOk(state, rewrite))
            /\ gw' = Exchange(RewriterPrompt(state), "value", rewrite, <<>>)
       \/ \E e \in Details :
            /\ Finish("rewriter", RewriterFailed(state, e))
            /\ gw' = Exchange(RewriterPrompt(state), "raise", e, <<>>)
    /\ UNCHANGED <<is_initialized, memory, loc, calls, turn, caller, owners, threads, agent_factory, chat_agent, agents>>

(***************************************************************************)
(* GraphNodes.tool_selector_node: the reactive tool loop.                  *)
(* One action enters the node (the code before the loop), one action is   *)
(* one loop iteration (a Gateway call and the tool calls it asks for),    *)
(* one is the forced final call after the loop.                            *)
(***************************************************************************)
ToolCall(name, id) == [name |-> name, args |-> <<>>, id |-> id]

AiMsg(content, tool_calls) ==
    [type |-> "ai", content |-> content, tool_calls |-> tool_calls]

ToolMessage(content, tool_call_id) ==
    [type |-> "tool", content |-> content, tool_call_id |-> tool_call_id]

\* What tool_to_call.invoke(args) can do: return text, or raise.
Returned(text) == [ok |-> TRUE, text |-> text]
Raised(e) == [ok |-> FALSE, text |-> e]

\* The outcomes of the tool calls of one reply: one per call of a registered
\* tool, None for a name that is not registered (nothing is invoked).
ToolOutcomes(names, Obs) ==
    {outs \in [1..Len(names) ->
                  {Returned(o) : o \in Observations} \cup {Raised(e) : e \in Details}
                  \cup {None}] :
        \A i \in 1..Len(names) :
            IF names[i] \in ToolNames
            THEN outs[i] # None /\ (outs[i].ok => outs[i].text \in Obs[names[i]])
            ELSE outs[i] = None}

\* next((t for t in tools if t.name == name), None) found a tool
ToolFound(name) == name \in ToolNames

\* Mutant: a name that is not registered is skipped without an observation.
ExecuteToolCall_skips_unknown(acc, tool_call, out) ==
    IF ToolFound(tool_call.name)
    THEN [messages |-> Append(acc.messages,
              ToolMessage(IF out.ok THEN out.text
                          ELSE <<"Error executing ", tool_call.name, ": ">> \o out.text,
                          tool_call.id)),
          tool_results |-> IF out.ok
                           THEN DictSet(acc.tool_results, tool_call.name, out.text)
                           ELSE acc.tool_results,
          executed |-> acc.executed + 1]
    ELSE acc

\* Mutant: a tool that raises leaves no observation message.
ExecuteToolCall_silent_failure(acc, tool_call, out) ==
    IF ToolFound(tool_call.name)
    THEN IF out.ok
         THEN [messages |-> Append(acc.messages, ToolMessage(out.text, tool_call.id)),
               tool_results |-> DictSet(acc.tool_results, tool_call.name, out.text),
               executed |-> acc.executed + 1]
         ELSE [acc EXCEPT !.executed = @ + 1]
    ELSE [messages |-> Append(acc.messages,
              ToolMessage(<<"Tool ", tool_call.name, " not found">>, tool_call.id)),
          tool_results |-> acc.tool_results,
          executed |-> acc.executed]

\* Mutant: a second observation of a tool does not replace the first.
ExecuteToolCall_keeps_first(acc, tool_call, out) ==
    IF ToolFound(tool_call.name)
    THEN [messages |-> Append(acc.messages,
              ToolMessage(IF out.ok THEN out.text
                          ELSE <<"Error executing ", tool_call.name, ": ">> \o out.text,
                          tool_call.id)),
          tool_results |-> IF out.ok /\ ~DictHas(acc.tool_results, tool_call.name)
                           THEN DictSet(acc.tool_results, tool_call.name, out.text)
                           ELSE acc.tool_results,
          executed |-> acc.executed + 1]
    ELSE [messages |-> Append(acc.messages,
              ToolMessage(<<"Tool ", tool_call.name, " not found">>, tool_call.id)),
          tool_results |-> acc.tool_results,
          executed |-> acc.executed]

\* The body of "for tool_call in ai_response.tool_calls" for one tool call;
\* acc is [messages, tool_results, executed].
ExecuteToolCall(acc, tool_call, out) ==
    IF ToolFound(tool_call.name)
    THEN IF out.ok
         THEN [messages |-> Append(acc.messages, ToolMessage(out.text, tool_call.id)),
               tool_results |-> DictSet(acc.tool_results, tool_call.name, out.text),
               executed |-> acc.executed + 1]
         ELSE [messages |-> Append(acc.messages,
                   ToolMessage(<<"Error executing ", tool_call.name, ": ">> \o out.text,
                               tool_call.id)),
               tool_results |-> acc.tool_results,
               executed |-> acc.executed + 1]
    ELSE [messages |-> Append(acc.messages,
              ToolMessage(<<"Tool ", tool_call.name, " not found">>, tool_call.id)),
          tool_results |-> acc.tool_results,
          executed |-> acc.executed]

RECURSIVE ExecuteToolCalls(_, _, _, _)
ExecuteToolCalls(acc, tool_calls, outs, i) ==
    IF i > Len(tool_calls) THEN acc
    ELSE ExecuteToolCalls(ExecuteToolCall(acc, tool_calls[i], outs[i]),
                          tool_calls, outs, i + 1)

\* Mutant: the loop bound is off by one.
LoopContinues_off_by_one(iteration) == iteration <= max_iterations

\* The while condition of the loop.
LoopContinues(iteration) == iteration < max_iterations

\* Mutant: the except clause logs and raises again.
ToolSelectorFailed_reraises(s, e) == Raises(e)

\* Mutant: the except clause adds the error to the results gathered so far.
ToolSelectorFailed_keeps_results(s, e) ==
    Returns([s EXCEPT !.tool_results =
        DictSet(loc.tool_results, "error",
                <<"I encountered an error while processing your request: ">> \o e)])

\* The except clause of the node.
ToolSelectorFailed(s, e) ==
    Returns([s EXCEPT !.tool_results =
        << <<"error", <<"I encountered an error while processing your request: ">> \o e>> >>])

\* Mutant: the answer is not stored under the sentinel key.
ToolSelectorAnswered_without_sentinel(s, tool_results, content) ==
    [s EXCEPT !.tool_results = tool_results]

\* Mutant: the dispatcher also writes its answer into final_response.
ToolSelectorAnswered_sets_final(s, tool_results, content) ==
    [s EXCEPT !.tool_results = DictSet(tool_results, "llm_final_response", content),
              !.final_response = content]

\* Mutant: the dispatcher also writes its answer over current_message.
ToolSelectorAnswered_touches_message(s, tool_results, content) ==
    [s EXCEPT !.tool_results = DictSet(tool_results, "llm_final_response", content),
              !.current_message = content]

\* Mutant: only the answer is kept, the recorded observations are dropped.
ToolSelectorAnswered_only_sentinel(s, tool_results, content) ==
    [s EXCEPT !.tool_results = << <<"llm_final_response", content>> >>]

\* "if not ai_response.tool_calls": the reply is the final answer.
ToolSelectorAnswered(s, tool_results, content) ==
    [s EXCEPT !.tool_results = DictSet(tool_results, "llm_final_response", content)]

\* Nothing called yet: Gateway calls with the tools bound, Gateway calls
\* without them (the forced final call), tool executions.
NoCalls == [bound |-> 0, final |-> 0, tools |-> 0]

tool_selector_enter ==
    /\ CanRun("tool_selector")
    /\ loc = None
    /\ loc' = [messages |-> create_simple_messages("tool_selector", state.current_message,
                                                   None, TRUE, history_limit, <<>>),
               iteration |-> 0,
               tool_results |-> <<>>]
    /\ calls' = NoCalls
    /\ gw' = None
    /\ UNCHANGED <<is_initialized, memory, pc, state, steps, path, result, turn, caller, owners, threads, agent_factory, chat_agent, agents>>

\* llm_with_tools.invoke(messages) raised: the except clause of the node.
ToolLoopGatewayFails ==
    \E e \in Details :
        /\ Finish("tool_selector", ToolSelectorFailed(state, e))
        /\ loc' = None
        /\ calls' = [calls EXCEPT !.bound = @ + 1]
        /\ gw' = Exchange(loc.messages, "raise", e, <<>>)

\* The reply has no tool calls.
ToolLoopAnswer ==
    \E content \in ReplyTexts :
        /\ Ran("tool_selector", ToolSelectorAnswered(state, loc.tool_results, content))
        /\ loc' = None
        /\ calls' = [calls EXCEPT !.bound = @ + 1]
        /\ gw' = Exchange(loc.messages, "text", content, <<>>)

\* The reply asks for tools: run each of them, then go round the loop.
ToolLoopCalls(CallLists, Obs) ==
    \E names \in CallLists :
        LET tool_calls == [i \in 1..Len(names) |-> ToolCall(names[i], <<loc.iteration + 1, i>>)]
            ai_response == AiMsg(<<>>, tool_calls)
        IN \E outs \in ToolOutcomes(names, Obs) :
            LET acc == ExecuteToolCalls([messages |-> Append(loc.messages, ai_response),
                                         tool_results |-> loc.tool_results,
                                         executed |-> 0],
                                        tool_calls, outs, 1)
            IN /\ loc' = [messages |-> acc.messages,
                          iteration |-> loc.iteration + 1,
                          tool_results |-> acc.tool_results]
               /\ calls' = [calls EXCEPT !.bound = @ + 1, !.tools = @ + acc.executed]
               /\ gw' = Exchange(loc.messages, "calls", <<>>, tool_calls)
               /\ UNCHANGED <<pc, state, steps, path, result>>

tool_selector_iterate(CallLists, Obs) ==
    /\ pc = "tool_selector"
    /\ loc # None
    /\ LoopContinues(loc.iteration)
    /\ \/ ToolLoopGatewayFails
       \/ ToolLoopAnswer
       \/ ToolLoopCalls(CallLists, Obs)
    /\ UNCHANGED <<is_initialized, memory, turn, caller, owners, threads, agent_factory, chat_agent, agents>>

\* After the loop: self.llm.invoke(messages + [answer-now instruction]).
ForcedFinalPrompt(messages) == Append(messages, Msg("user", FINAL_INSTRUCTION))

tool_selector_final ==
    /\ pc = "tool_selector"
    /\ loc # None
    /\ ~LoopContinues(loc.iteration)
    /\ \/ \E content \in ReplyTexts :
            /\ Ran("tool_selector", ToolSelectorAnswered(state, loc.tool_results, content))
            /\ gw' = Exchange(ForcedFinalPrompt(loc.messages), "text", content, <<>>)
       \/ \E e \in Details :
            /\ Finish("tool_selector", ToolSelectorFailed(state, e))
            /\ gw' = Exchange(ForcedFinalPrompt(loc.messages), "raise", e, <<>>)
    /\ loc' = None
    /\ calls' = [calls EXCEPT !.final = @ + 1]
    /\ UNCHANGED <<is_initialized, memory, turn, caller, owners, threads, agent_factory, chat_agent, agents>>

(***************************************************************************)
(* GraphNodes.response_generator_node                                      *)
(***************************************************************************)
\* The metadata of the normal path.
ResponseMetadata(s) ==
    [intent |-> IF s.supervisor_decision # None THEN s.supervisor_decision.intent
                ELSE "unknown",
     confidence |-> IF s.supervisor_decision # None THEN s.supervisor_decision.confidence
                    ELSE 0,
     tools_used |-> IF s.tool_results # <<>> THEN DictKeys(s.tool_results) ELSE <<>>,
     iterations |-> s.iteration_count,
     was_rewritten |-> s.rewriter_response # None]

\* The end of the try block: final_response is set, then memory and metadata.
Responded(s, final_response) ==
    LET t == [s EXCEPT !.final_response = final_response]
    IN [t EXCEPT !.metadata = ResponseMetadata(t)]

\* Mutant: the answer is appended before the user's message.
MemoryUpdate_ai_first(mem, s) ==
    mem \o <<Msg("ai", s.final_response), Msg("human", s.current_message)>>

\* self.memory.chat_memory.add_user_message / add_ai_message
MemoryUpdate(mem, s) ==
    mem \o <<Msg("human", s.current_message), Msg("ai", s.final_response)>>

\* The except clause of the node.
ResponderFailed(s, e) ==
    Returns([s EXCEPT !.final_response = APOLOGY_ERROR, !.metadata = [error |-> e]])

\* Mutant: the node does not look at the dispatcher's sentinel entries.
ResponseSource_ignores_sentinels(s) == "llm"

\* Which branch of the if / elif / else the node takes.
ResponseSource(s) ==
    IF s.tool_results # <<>> /\ DictHas(s.tool_results, "llm_final_response")
    THEN "llm_final_response"
    ELSE IF s.tool_results # <<>> /\ DictHas(s.tool_results, "error")
    THEN "error"
    ELSE "llm"

RespondWith(final_response) ==
    LET s == Responded(state, final_response)
    IN /\ Ran("response_generator", s)
       /\ memory' = MemoryUpdate(memory, s)
       /\ owners' = owners \o <<caller, caller>>

response_generator_node ==
    /\ CanRun("response_generator")
    /\ \/ /\ ResponseSource(state) # "llm"
          /\ RespondWith(DictGet(state.tool_results, ResponseSource(state)))
          /\ gw' = None
       \/ /\ ResponseSource(state) = "llm"
          /\ \/ \E content \in SynthesisTexts :
                  /\ RespondWith(content)
                  /\ gw' = Exchange(create_response_messages(state), "text", content, <<>>)
             \/ /\ RespondWith(APOLOGY_FORMAT)
                /\ gw' = Exchange(create_response_messages(state), "none", <<>>, <<>>)
             \/ \E e \in Details :
                  /\ Finish("response_generator", ResponderFailed(state, e))
                  /\ memory' = memory
                  /\ owners' = owners
                  /\ gw' = Exchange(create_response_messages(state), "raise", e, <<>>)
    /\ UNCHANGED <<is_initialized, loc, calls, turn, caller, threads, agent_factory, chat_agent, agents>>

(***************************************************************************)
(* GraphChatAgent.process_message                                          *)
(***************************************************************************)
\* The call: the initialization check, then the graph starts at its entry point.
\* The call comes from route_message_to_agents of one of the frontend sessions
\* in Callers; get_chat_agent hands every session the one agent of the process
\* (the module global _chat_agent), which is the agent of this model.
\* Mutant: the call does not look at is_initialized and starts the graph.
process_message_unchecked(Callers) ==
    /\ pc = "idle"
    /\ turn < MaxTurns
    /\ turn' = turn + 1
    /\ \E session \in Callers : caller' = session
    /\ \E message \in UserMessages :
        /\ result' = None
        /\ state' = ChatState(message)
        /\ pc' = "supervisor"
        /\ steps' = 0
        /\ path' = <<>>
    /\ gw' = None
    /\ calls' = NoCalls
    /\ UNCHANGED <<is_initialized, memory, loc, owners, threads, agent_factory, chat_agent, agents>>

process_message(Callers) ==
    /\ pc = "idle"
    /\ turn < MaxTurns
    /\ turn' = turn + 1
    /\ \E session \in Callers : caller' = session
    /\ \E message \in UserMessages :
        IF ~is_initialized
        THEN /\ result' = [raised |-> "RuntimeError"]
             /\ UNCHANGED <<pc, state, steps, path>>
        ELSE /\ result' = None
             /\ state' = ChatState(message)
             /\ pc' = "supervisor"
             /\ steps' = 0
             /\ path' = <<>>
    /\ gw' = None
    /\ calls' = NoCalls
    /\ UNCHANGED <<is_initialized, memory, loc, owners, threads, agent_factory, chat_agent, agents>>

\* The graph reached END: the final state becomes the AgentResponse.
process_message_return ==
    /\ pc = "END"
    /\ result' = AgentResponse(state.final_response, state.metadata)
    /\ pc' = "idle"
    /\ state' = None
    /\ UNCHANGED <<is_initialized, memory, steps, path, loc, calls, gw, turn, caller, owners, threads, agent_factory, chat_agent, agents>>

\* The graph runner gave up (recursion limit): compiled_graph.invoke raised.
process_message_graph_error ==
    /\ pc \in Nodes
    /\ steps >= RecursionLimit
    /\ result' = GraphFailed(RECURSION_ERROR)
    /\ pc' = "idle"
    /\ state' = None
    /\ loc' = None
    /\ UNCHANGED <<is_initialized, memory, steps, path, calls, gw, turn, caller, owners, threads, agent_factory, chat_agent, agents>>

\* The specifications of one agent's turns keep the process around the agent
\* fixed: no thread is inside get_chat_agent or reset_agents.
ProcessAtRest ==
    /\ threads = [t \in Sessions |-> [pc |-> "idle"]]
    /\ agent_factory = None
    /\ chat_agent = None
    /\ agents = <<>>

(***************************************************************************)
(* The specification: one agent, turns one after another.                  *)
(***************************************************************************)
Init ==
    /\ is_initialized = FALSE
    /\ memory = <<>>
    /\ pc = "idle"
    /\ state = None
    /\ steps = 0
    /\ path = <<>>
    /\ loc = None
    /\ calls = NoCalls
    /\ gw = None
    /\ result = None
    /\ turn = 0
    /\ caller = None
    /\ owners = <<>>
    /\ ProcessAtRest

Next ==
    \/ initialize
    \/ process_message(OneSession)
    \/ supervisor_node
    \/ rewriter_node
    \/ tool_selector_enter
    \/ tool_selector_iterate(TurnCallLists, TurnObservations)
    \/ tool_selector_final
    \/ response_generator_node
    \/ process_message_return
    \/ process_message_graph_error

Spec == Init /\ [][Next]_vars

(***************************************************************************)
(* Several frontend sessions of one process: each submits its turns        *)
(* through route_message_to_agents, that is to the agent get_chat_agent    *)
(* returns.  Turns are serialized (one runs to its end before the next).   *)
(***************************************************************************)
NextSessions ==
    \/ initialize
    \/ process_message(Sessions)
    \/ supervisor_node
    \/ rewriter_node
    \/ tool_selector_enter
    \/ tool_selector_iterate(TurnCallLists, TurnObservations)
    \/ tool_selector_final
    \/ response_generator_node
    \/ process_message_return
    \/ process_message_graph_error

SpecSessions == Init /\ [][NextSessions]_vars

(***************************************************************************)
(* The router on its own: the conditional edge applied to any ChatState.   *)
(***************************************************************************)
ErrorDecisions ==
    {SupervisorFailed(ChatState(<<>>), e).state.supervisor_decision : e \in Details}

RouterStates ==
    {[ChatState(m) EXCEPT !.supervisor_decision = d, !.rewriter_response = r,
                          !.current_message = c] :
        m \in UserMessages,
        d \in Decisions \cup ErrorDecisions \cup {None},
        r \in Rewrites \cup {None},
        c \in {<<>>} \cup UserMessages \cup RewrittenMessages}

InitRouter ==
    /\ is_initialized = TRUE
    /\ memory = <<>>
    /\ pc = "supervisor_router"
    /\ state \in RouterStates
    /\ steps = 1
    /\ path = <<"supervisor">>
    /\ loc = None
    /\ calls = NoCalls
    /\ gw = None
    /\ result = None
    /\ turn = 1
    /\ caller \in OneSession
    /\ owners = <<>>
    /\ ProcessAtRest

\* add_conditional_edges("supervisor", supervisor_router, {...})
route ==
    /\ pc = "supervisor_router"
    /\ pc' = ConditionalEdge(supervisor_router(state))
    /\ UNCHANGED <<is_initialized, memory, state, steps, path, loc, calls, gw, result, turn, caller, owners, threads, agent_factory, chat_agent, agents>>

SpecRouter == InitRouter /\ [][route]_vars

(***************************************************************************)
(* The tool loop on its own: tool_selector_node entered in the states a    *)
(* turn reaches it in (first classification tool_required, or a rewrite    *)
(* and then tool_required), with the richer menu of tool requests.         *)
(***************************************************************************)
DispatchEntryStates ==
    {SupervisorOk(ChatState(m), d) :
        m \in UserMessages,
        d \in {x \in Decisions : x.intent = "tool_required" /\ ~x.needs_rewrite}}

InitDispatch ==
    /\ is_initialized = TRUE
    /\ memory = <<>>
    /\ pc = "tool_selector"
    /\ state \in DispatchEntryStates
    /\ steps = 1
    /\ path = <<"supervisor">>
    /\ loc = None
    /\ calls = NoCalls
    /\ gw = Exchange(SupervisorPrompt(ChatState(state.original_message)), "value", state.supervisor_decision, <<>>)
    /\ result = None
    /\ turn = 1
    /\ caller \in OneSession
    /\ owners = <<>>
    /\ ProcessAtRest

NextDispatch ==
    \/ tool_selector_enter
    \/ tool_selector_iterate(DispatchCallLists, DispatchObservations)
    \/ tool_selector_final

SpecDispatch == InitDispatch /\ [][NextDispatch]_vars

\* The entry states of SpecDispatch are states of Spec.
DispatchEntryReached ==
    /\ pc = "tool_selector" /\ loc = None /\ state \in DispatchEntryStates
    /\ memory = <<>> /\ steps = 1 /\ path = <<"supervisor">> /\ calls = NoCalls
    /\ gw = Exchange(SupervisorPrompt(ChatState(state.original_message)), "value", state.supervisor_decision, <<>>)
    /\ result = None /\ turn = 1 /\ is_initialized
    /\ caller \in OneSession /\ owners = <<>>

(***************************************************************************)
(* One turn of an agent whose session already holds a History: the turns   *)
(* before it left HistoryTurns user / assistant pairs in the memory.       *)
(***************************************************************************)
MaxHistoryTurns == 4

\* The i-th entry: its text is unlike every other entry's.
EarlierHistory(n) ==
    [i \in 1..(2 * n) |-> Msg(IF i % 2 = 1 THEN "human" ELSE "ai", <<"entry", ToString(i)>>)]

InitHistory ==
    /\ is_initialized = TRUE
    /\ \E n \in 0..MaxHistoryTurns :
          /\ memory = EarlierHistory(n)
          /\ owners = [i \in 1..(2 * n) |-> "session 1"]
    /\ pc = "idle"
    /\ state = None
    /\ steps = 0
    /\ path = <<>>
    /\ loc = None
    /\ calls = NoCalls
    /\ gw = None
    /\ result = None
    /\ turn = MaxTurns - 1
    /\ caller \in OneSession
    /\ ProcessAtRest

NextHistory ==
    \/ process_message(OneSession)
    \/ supervisor_node
    \/ rewriter_node
    \/ tool_selector_enter
    \/ tool_selector_iterate(TurnCallLists, TurnObservations)
    \/ tool_selector_final
    \/ response_generator_node
    \/ process_message_return
    \/ process_message_graph_error

SpecHistory == InitHistory /\ [][NextHistory]_vars

(***************************************************************************)
(* Two sessions' script threads inside process_message of the one agent    *)
(* at the same time: each turn has its own Turn State, the History is the  *)
(* agent's.  The Responder's memory update is two calls, and a thread can  *)
(* be descheduled between them.                                            *)
(***************************************************************************)
\* The Turn State a turn holds when its Responder reaches the memory update:
\* the turns of a message the Classifier sends straight to the Responder,
\* which synthesizes the answer.  final_response is set, the metadata is
\* not yet: the node assigns it after the two appends.
UpdateStates(message) ==
    {[SupervisorOk(ChatState(message), d) EXCEPT !.final_response = content] :
        d \in {x \in Decisions : x.intent = "conversation" /\ ~x.needs_rewrite},
        content \in SynthesisTexts}

\* The Turn State of such a turn when the synthesis call raised: the except
\* clause of the Responder skips the memory update.
NoUpdateStates(message) ==
    {ResponderFailed(SupervisorOk(ChatState(message), d), e).state :
        d \in {x \in Decisions : x.intent = "conversation" /\ ~x.needs_rewrite},
        e \in Details}

InThread(t, position, s) == threads' = [threads EXCEPT ![t] = [pc |-> position, state |-> s]]

\* process_message(message) called on the thread of session t.
thread_process_message(t) ==
    /\ threads[t].pc = "idle"
    /\ is_initialized
    /\ turn < MaxTurns
    /\ turn' = turn + 1
    /\ \E message \in UserMessages : InThread(t, "graph", ChatState(message))
    /\ UNCHANGED <<is_initialized, memory, pc, state, steps, path, loc, calls, gw, result, caller, owners>>
    /\ UNCHANGED processVars

\* The nodes of the turn up to the Responder's memory update: they write the
\* turn's own Turn State only.
thread_graph(t) ==
    /\ threads[t].pc = "graph"
    /\ \/ \E s \in UpdateStates(threads[t].state.original_message) :
            InThread(t, "add_user_message", s)
       \/ \E s \in NoUpdateStates(threads[t].state.original_message) :
            InThread(t, "return", s)
    /\ UNCHANGED turnVars
    /\ UNCHANGED processVars

\* Mutant: the update is done under a lock: no thread starts it while
\* another thread is between its two appends.
add_user_message_locked(t) ==
    /\ threads[t].pc = "add_user_message"
    /\ \A u \in Sessions \ {t} : threads[u].pc # "add_ai_message"
    /\ memory' = Append(memory, Msg("human", threads[t].state.current_message))
    /\ owners' = Append(owners, t)
    /\ InThread(t, "add_ai_message", threads[t].state)
    /\ UNCHANGED <<is_initialized, pc, state, steps, path, loc, calls, gw, result, turn, caller>>
    /\ UNCHANGED processVars

\* self.memory.chat_memory.add_user_message(state.current_message)
add_user_message(t) ==
    /\ threads[t].pc = "add_user_message"
    /\ memory' = Append(memory, Msg("human", threads[t].state.current_message))
    /\ owners' = Append(owners, t)
    /\ InThread(t, "add_ai_message", threads[t].state)
    /\ UNCHANGED <<is_initialized, pc, state, steps, path, loc, calls, gw, result, turn, caller>>
    /\ UNCHANGED processVars

\* self.memory.chat_memory.add_ai_message(state.final_response)
add_ai_message(t) ==
    /\ threads[t].pc = "add_ai_message"
    /\ memory' = Append(memory, Msg("ai", threads[t].state.final_response))
    /\ owners' = Append(owners, t)
    /\ InThread(t, "return", threads[t].state)
    /\ UNCHANGED <<is_initialized, pc, state, steps, path, loc, calls, gw, result, turn, caller>>
    /\ UNCHANGED processVars

\* The rest of the node, the edge to END and the return of process_message.
thread_return(t) ==
    /\ threads[t].pc = "return"
    /\ InThread(t, "idle", None)
    /\ UNCHANGED turnVars
    /\ UNCHANGED processVars

InitConcurrent ==
    /\ is_initialized = TRUE
    /\ memory = <<>>
    /\ pc = "idle"
    /\ state = None
    /\ steps = 0
    /\ path = <<>>
    /\ loc = None
    /\ calls = NoCalls
    /\ gw = None
    /\ result = None
    /\ turn = 0
    /\ caller = None
    /\ owners = <<>>
    /\ threads = [t \in Sessions |-> [pc |-> "idle", state |-> None]]
    /\ agent_factory = None
    /\ chat_agent = None
    /\ agents = <<>>

NextConcurrent ==
    \E t \in Sessions :
        \/ thread_process_message(t)
        \/ thread_graph(t)
        \/ add_user_message(t)
        \/ add_ai_message(t)
        \/ thread_return(t)

SpecConcurrent == InitConcurrent /\ [][NextConcurrent]_vars

(***************************************************************************)
(* agent_factory: the module globals _agent_factory and _chat_agent,       *)
(* get_chat_agent and reset_agents called from the sessions' threads.  A   *)
(* thread can be descheduled between any two accesses of a global.         *)
(***************************************************************************)
MaxThreadCalls == 2

\* Turns one thread runs on the agents it was given.
MaxThreadTurns == 1

\* The config arguments callers pass.
Configs == {"config 1", "config 2"}

\* AgentFactory(config)
AgentFactory(config) == [config |-> config]

\* AgentFactory.create_chat_agent: a new agent with a memory of its own,
\* initialized.  by is the caller that had it built; retired marks an agent
\* that was the global one when reset_agents dropped it.
NewAgent(factory, by) ==
    [config |-> factory.config, memory |-> <<>>, is_initialized |-> TRUE,
     by |-> by, retired |-> FALSE]

\* A reference to the i-th agent created (what the global and the callers hold).
AgentRef(i) == [agent |-> i]

IsAgent(ref) == "agent" \in DOMAIN ref

At(t, position) == threads' = [threads EXCEPT ![t].pc = position]

\* get_chat_agent(config) is called on thread t.
get_chat_agent(t) ==
    /\ threads[t].pc = "idle"
    /\ threads[t].n < MaxThreadCalls
    /\ \E config \in Configs :
          threads' = [threads EXCEPT ![t].pc = "check_factory", ![t].config = config,
                                     ![t].n = @ + 1]
    /\ UNCHANGED processVars
    /\ UNCHANGED turnVars

\* if _agent_factory is None:
check_factory(t) ==
    /\ threads[t].pc = "check_factory"
    /\ At(t, IF agent_factory = None THEN "initialize_factory" ELSE "check_agent")
    /\ UNCHANGED processVars
    /\ UNCHANGED turnVars

\* initialize_factory(config) called by get_chat_agent: the function stores
\* the new factory in the global itself.
initialize_factory(t) ==
    /\ threads[t].pc = "initialize_factory"
    /\ agent_factory' = AgentFactory(threads[t].config)
    /\ At(t, "return_factory")
    /\ UNCHANGED <<chat_agent, agents>>
    /\ UNCHANGED turnVars

\* initialize_factory: return _agent_factory.  The global is read again: it
\* holds what the last writer left there, None after a reset.
return_factory(t) ==
    /\ threads[t].pc = "return_factory"
    /\ threads' = [threads EXCEPT ![t].pc = "assign_factory", ![t].factory = agent_factory]
    /\ UNCHANGED processVars
    /\ UNCHANGED turnVars

\* _agent_factory = (what initialize_factory returned): the second write.
assign_factory(t) ==
    /\ threads[t].pc = "assign_factory"
    /\ agent_factory' = threads[t].factory
    /\ At(t, "check_agent")
    /\ UNCHANGED <<chat_agent, agents>>
    /\ UNCHANGED turnVars

\* if _chat_agent is None:
check_agent(t) ==
    /\ threads[t].pc = "check_agent"
    /\ At(t, IF chat_agent = None THEN "create_chat_agent" ELSE "return")
    /\ UNCHANGED processVars
    /\ UNCHANGED turnVars

\* _agent_factory.create_chat_agent: the global is read and the method
\* entered; with the factory reset in the meantime the attribute access on
\* None raises.
create_chat_agent(t) ==
    /\ threads[t].pc = "create_chat_agent"
    /\ IF agent_factory = None
       THEN threads' = [threads EXCEPT ![t].pc = "idle", ![t].agent = [raised |-> "AttributeError"]]
       ELSE threads' = [threads EXCEPT ![t].pc = "build_chat_agent", ![t].factory = agent_factory]
    /\ UNCHANGED processVars
    /\ UNCHANGED turnVars

\* The body of AgentFactory.create_chat_agent: the agent is built.
build_chat_agent(t) ==
    /\ threads[t].pc = "build_chat_agent"
    /\ agents' = Append(agents, NewAgent(threads[t].factory, "get_chat_agent"))
    /\ threads' = [threads EXCEPT ![t].pc = "assign_chat_agent",
                                  ![t].created = AgentRef(Len(agents) + 1)]
    /\ UNCHANGED <<agent_factory, chat_agent>>
    /\ UNCHANGED turnVars

\* _chat_agent = (what create_chat_agent returned)
assign_chat_agent(t) ==
    /\ threads[t].pc = "assign_chat_agent"
    /\ chat_agent' = threads[t].created
    /\ At(t, "return")
    /\ UNCHANGED <<agent_factory, agents>>
    /\ UNCHANGED turnVars

\* return _chat_agent
return_chat_agent(t) ==
    /\ threads[t].pc = "return"
    /\ threads' = [threads EXCEPT ![t].pc = "idle", ![t].agent = chat_agent]
    /\ UNCHANGED processVars
    /\ UNCHANGED turnVars

\* reset_agents() is called on thread t: _agent_factory = None
reset_agents(t) ==
    /\ threads[t].pc = "idle"
    /\ threads[t].n < MaxThreadCalls
    /\ agent_factory' = None
    /\ threads' = [threads EXCEPT ![t].pc = "reset_chat_agent", ![t].n = @ + 1]
    /\ UNCHANGED <<chat_agent, agents>>
    /\ UNCHANGED turnVars

\* reset_agents, second assignment: _chat_agent = None
reset_chat_agent(t) ==
    /\ threads[t].pc = "reset_chat_agent"
    /\ chat_agent' = None
    /\ agents' = [i \in 1..Len(agents) |->
                    IF chat_agent = AgentRef(i) THEN [agents[i] EXCEPT !.retired = TRUE]
                    ELSE agents[i]]
    /\ At(t, "idle")
    /\ UNCHANGED agent_factory
    /\ UNCHANGED turnVars

\* initialize_factory(config) called directly, not through get_chat_agent:
\* the global factory is replaced, _chat_agent is left alone.
initialize_factory_direct(t) ==
    /\ threads[t].pc = "idle"
    /\ threads[t].n < MaxThreadCalls
    /\ \E config \in Configs : agent_factory' = AgentFactory(config)
    /\ threads' = [threads EXCEPT ![t].n = @ + 1]
    /\ UNCHANGED <<chat_agent, agents>>
    /\ UNCHANGED turnVars

\* create_chat_agent() called directly on the global factory: one more agent
\* with a memory of its own; the globals are left alone.
create_chat_agent_direct(t) ==
    /\ threads[t].pc = "idle"
    /\ threads[t].n < MaxThreadCalls
    /\ agent_factory # None
    /\ agents' = Append(agents, NewAgent(agent_factory, "create_chat_agent"))
    /\ threads' = [threads EXCEPT ![t].n = @ + 1]
    /\ UNCHANGED <<agent_factory, chat_agent>>
    /\ UNCHANGED turnVars

\* A turn on the agent the thread was given: process_message up to the
\* Responder's memory update.
agent_turn(t) ==
    /\ threads[t].pc = "idle"
    /\ threads[t].turns < MaxThreadTurns
    /\ IsAgent(threads[t].agent)
    /\ \E message \in UserMessages : \E s \in UpdateStates(message) :
          threads' = [threads EXCEPT ![t].pc = "add_user_message", ![t].state = s,
                                     ![t].turns = @ + 1]
    /\ UNCHANGED processVars
    /\ UNCHANGED turnVars

\* The turn's add_user_message on the memory of its agent.
agent_add_user_message(t) ==
    /\ threads[t].pc = "add_user_message"
    /\ agents' = [agents EXCEPT ![threads[t].agent.agent].memory =
                      Append(@, Msg("human", threads[t].state.current_message))]
    /\ At(t, "add_ai_message")
    /\ UNCHANGED <<agent_factory, chat_agent>>
    /\ UNCHANGED turnVars

\* The turn's add_ai_message, and the return of process_message.
agent_add_ai_message(t) ==
    /\ threads[t].pc = "add_ai_message"
    /\ agents' = [agents EXCEPT ![threads[t].agent.agent].memory =
                      Append(@, Msg("ai", threads[t].state.final_response))]
    /\ threads' = [threads EXCEPT ![t].pc = "idle", ![t].state = None]
    /\ UNCHANGED <<agent_factory, chat_agent>>
    /\ UNCHANGED turnVars

InitFactory ==
    /\ is_initialized = FALSE
    /\ memory = <<>>
    /\ pc = "idle"
    /\ state = None
    /\ steps = 0
    /\ path = <<>>
    /\ loc = None
    /\ calls = NoCalls
    /\ gw = None
    /\ result = None
    /\ turn = 0
    /\ caller = None
    /\ owners = <<>>
    /\ threads = [t \in Sessions |->
                    [pc |-> "idle", config |-> None, agent |-> None, n |-> 0,
                     factory |-> None, created |-> None, state |-> None, turns |-> 0]]
    /\ agent_factory = None
    /\ chat_agent = None
    /\ agents = <<>>

NextFactory ==
    \E t \in Sessions :
        \/ get_chat_agent(t)
        \/ check_factory(t)
        \/ initialize_factory(t)
        \/ return_factory(t)
        \/ assign_factory(t)
        \/ check_agent(t)
        \/ create_chat_agent(t)
        \/ build_chat_agent(t)
        \/ assign_chat_agent(t)
        \/ return_chat_agent(t)
        \/ reset_agents(t)
        \/ reset_chat_agent(t)
        \/ initialize_factory_direct(t)
        \/ create_chat_agent_direct(t)
        \/ agent_turn(t)
        \/ agent_add_user_message(t)
        \/ agent_add_ai_message(t)

SpecFactory == InitFactory /\ [][NextFactory]_vars

(***************************************************************************)
(* Properties.                                                             *)
(***************************************************************************)
Count(seq, x) == Cardinality({i \in 1..Len(seq) : seq[i] = x})

\* process_message returned an AgentResponse (it did not raise).
TurnEnded == pc = "idle" /\ result # None /\ "text" \in DOMAIN result

\* C1: in every turn the Rewriter node executes at most once and the
\* Classifier node at most twice, whatever the Classifier returns and whether
\* the Rewriter's Gateway call succeeds or fails.
C1_RewriterAtMostOnce ==
    /\ Count(path, "rewriter") <= 1
    /\ Count(path, "supervisor") <= 2

\* C2: every turn reaches the Terminal state: a graph run that has ended has
\* ended through the Responder, the only node with an edge to Terminal (the
\* router's own edge to Terminal needs an absent classification).
C2_TurnReachesTerminal ==
    TurnEnded => (path # <<>> /\ path[Len(path)] = "response_generator")

\* C3: once the Rewriter node has executed, the rewrite field of the Turn
\* State is non-empty, on the success path and on the failure path.
C3_RewriteRecorded ==
    (state # None /\ Count(path, "rewriter") > 0) => state.rewriter_response # None

\* C4: the router's table.  Terminal iff the classification is absent;
\* otherwise Rewriter iff needs_rewrite and no rewrite yet; otherwise
\* ToolDispatcher iff the intent is tool_required; otherwise Responder.
C4_RouterTable ==
    pc # "supervisor_router" =>
        LET d == state.supervisor_decision
            absent == d = None
            rewrite == ~absent /\ d.needs_rewrite /\ state.rewriter_response = None
            tools == ~absent /\ ~rewrite /\ d.intent = "tool_required"
        IN /\ pc \in {"END", "rewriter", "tool_selector", "response_generator"}
           /\ (pc = "END") <=> absent
           /\ (pc = "rewriter") <=> rewrite
           /\ (pc = "tool_selector") <=> tools
           /\ (pc = "response_generator") <=> (~absent /\ ~rewrite /\ ~tools)

\* C4's case: a classification that asks again for a rewrite after one was
\* made is routed by its intent.
C4_Witness ==
    /\ pc = "tool_selector"
    /\ state.supervisor_decision # None
    /\ state.supervisor_decision.needs_rewrite
    /\ state.rewriter_response # None

\* C5: one Tool-Dispatcher execution invokes the tool-bound Gateway at most
\* 5 times and the Gateway at most 6 times; the forced final call is made
\* only after 5 replies with tool requests, and then exactly once, with the
\* answer-now instruction appended to the messages, and the text it returns
\* is stored under llm_final_response.
C5_DispatchLoopBound ==
    /\ [](/\ calls.bound <= 5
          /\ calls.final <= 1
          /\ calls.bound + calls.final <= 6
          /\ (calls.final = 1 => calls.bound = 5))
    /\ [][(pc = "tool_selector" /\ loc # None /\ calls.bound = 5) =>
            /\ calls'.bound = 5
            /\ calls'.final = 1
            /\ pc' = "response_generator"
            /\ gw'.prompt = Append(loc.messages, Msg("user", FINAL_INSTRUCTION))
            /\ (gw'.kind = "text" =>
                    /\ DictHas(state'.tool_results, "llm_final_response")
                    /\ DictGet(state'.tool_results, "llm_final_response") = gw'.text)]_vars

\* C5's case: five replies with tool requests, then the forced final answer.
C5_Witness ==
    /\ pc = "response_generator"
    /\ calls.bound = 5
    /\ calls.final = 1
    /\ calls.tools > 0
    /\ gw.kind = "text"
    /\ DictHas(state.tool_results, "llm_final_response")

\* C6: a Gateway reply with tool requests never ends the loop or the turn,
\* whatever the tools do: the request message and then one observation per
\* request, in request order and with the request's id, are appended (for a
\* name that is not registered the not-found text, for a failed tool the
\* error text), and the node stands at its next Gateway invocation.
C6_ToolFailureContained ==
    [][(pc = "tool_selector" /\ loc # None /\ calls'.bound = calls.bound + 1
        /\ gw'.kind = "calls") =>
          LET tcs == gw'.tool_calls
              base == Len(loc.messages)
          IN /\ pc' = "tool_selector"
             /\ loc' # None
             /\ result' = result
             /\ loc'.iteration = loc.iteration + 1
             /\ Len(loc'.messages) = base + 1 + Len(tcs)
             /\ SubSeq(loc'.messages, 1, base) = loc.messages
             /\ loc'.messages[base + 1].type = "ai"
             /\ loc'.messages[base + 1].tool_calls = tcs
             /\ \A i \in 1..Len(tcs) :
                   LET m == loc'.messages[base + 1 + i] IN
                   /\ m.type = "tool"
                   /\ m.tool_call_id = tcs[i].id
                   /\ IF tcs[i].name \in ToolNames
                      THEN \/ m.content \in Observations
                           \/ \E e \in Details :
                                m.content = <<"Error executing ", tcs[i].name, ": ">> \o e
                      ELSE m.content = <<"Tool ", tcs[i].name, " not found">>]_vars

\* C6's case: in one reply a tool failed, the next name was not registered,
\* the third request was still executed, and the Gateway was invoked again.
C6_Witness ==
    /\ pc = "tool_selector"
    /\ loc # None
    /\ calls.bound >= 2
    /\ \E i \in 1..(Len(loc.messages) - 3) :
          /\ loc.messages[i].type = "tool"
          /\ loc.messages[i].content[1] = "Error executing "
          /\ loc.messages[i + 1].type = "tool"
          /\ loc.messages[i + 1].content = <<"Tool ", "no_such_tool", " not found">>
          /\ loc.messages[i + 2].type = "tool"
          /\ loc.messages[i + 2].content \in Observations
          /\ loc.messages[i + 3].type = "ai"

\* C7: when the first Gateway reply of the Tool-Dispatcher has no tool
\* requests, the node returns at once: 1 Gateway invocation, no tool
\* execution, and tool_results is exactly {llm_final_response: reply text}.
C7_FirstReplyAnswer ==
    [][(pc = "tool_selector" /\ loc # None /\ calls.bound = 0 /\ gw'.kind = "text") =>
          /\ pc' = "response_generator"
          /\ loc' = None
          /\ path' = Append(path, "tool_selector")
          /\ calls' = [bound |-> 1, final |-> 0, tools |-> 0]
          /\ state'.tool_results = << <<"llm_final_response", gw'.text>> >>]_vars

\* C7's case: the node returned after one Gateway reply without tool requests.
C7_Witness ==
    /\ pc = "response_generator"
    /\ path[Len(path)] = "tool_selector"
    /\ calls = [bound |-> 1, final |-> 0, tools |-> 0]
    /\ gw.kind = "text"
    /\ state.tool_results = << <<"llm_final_response", gw.text>> >>

\* C8: the metadata returned by process_message has the five keys intent,
\* confidence, tools_used, iterations and was_rewritten for every turn.
C8_MetadataComplete ==
    TurnEnded =>
        {"intent", "confidence", "tools_used", "iterations", "was_rewritten"}
            \subseteq DOMAIN result.metadata

\* C9: a Gateway failure in any of the four nodes is recovered in the node
\* and becomes a value in the Turn State (the error Decision, a recorded
\* rewrite result, the stored error text, the apology with the error in the
\* metadata); the node returns and the run goes on along the node's edge, so
\* no graph run is aborted because of a Gateway failure.
C9_GatewayFailureContained ==
    /\ [][(pc \in Nodes /\ path' # path /\ gw' # None /\ gw'.kind = "raise") =>
            /\ path' = Append(path, pc)
            /\ steps' = steps + 1
            /\ result' = result
            /\ state' # None
            /\ pc' = NextNode(pc, state')
            /\ pc = "supervisor" =>
                  /\ state'.supervisor_decision.intent = "error"
                  /\ state'.supervisor_decision.confidence = 0
                  /\ ~state'.supervisor_decision.needs_rewrite
            /\ pc = "rewriter" =>
                  /\ state'.current_message = state.original_message
                  /\ state'.rewriter_response # None
            /\ pc = "tool_selector" =>
                  /\ DictHas(state'.tool_results, "error")
                  /\ DictGet(state'.tool_results, "error") =
                        <<"I encountered an error while processing your request: ">>
                        \o gw'.text
            /\ pc = "response_generator" =>
                  /\ state'.final_response = APOLOGY_ERROR
                  /\ state'.metadata = [error |-> gw'.text]]_vars
    /\ [][(pc \in Nodes) => pc' # "idle"]_vars

\* C10: once the agent is initialized a process_message call never raises;
\* when the graph run fails the call returns the fixed apology text and a
\* metadata with the entries error and type = graph_execution_error.
C10_ProcessMessageNeverRaises ==
    [][is_initialized =>
          /\ (result' # result /\ result' # None) => "text" \in DOMAIN result'
          /\ (pc \in Nodes /\ pc' = "idle") =>
                /\ result'.text = APOLOGY_ERROR
                /\ {"error", "type"} \subseteq DOMAIN result'.metadata
                /\ result'.metadata.type = <<"graph_execution_error">>]_vars

\* C10's case: a graph run failed and process_message returned the apology.
C10_Witness ==
    /\ TurnEnded
    /\ path # <<>>
    /\ path[Len(path)] # "response_generator"
    /\ result.text = APOLOGY_ERROR

\* A Classifier visit of this turn ended in a Gateway failure: the Decision
\* stored is the one of the except clause.
ClassifierFailed ==
    /\ state # None
    /\ state.supervisor_decision # None
    /\ state.supervisor_decision.intent = "error"
    /\ state.supervisor_decision.confidence = 0
    /\ Len(state.supervisor_decision.reasoning) > 0
    /\ state.supervisor_decision.reasoning[1] = "Error in supervisor: "

\* C11: when the Classifier's Gateway call fails the Classifier stores the
\* Decision {error, 0, needs_rewrite false, reasoning with the failure
\* detail} and the router sends the turn to the Responder; after a failed
\* classification neither the Rewriter nor the Tool-Dispatcher runs.
C11_FailedClassificationToResponder ==
    /\ [][(pc = "supervisor" /\ path' # path /\ gw'.kind = "raise") =>
            /\ state' # None
            /\ state'.supervisor_decision =
                  [intent |-> "error", confidence |-> 0, needs_rewrite |-> FALSE,
                   reasoning |-> <<"Error in supervisor: ">> \o gw'.text]
            /\ pc' = "response_generator"]_vars
    /\ [][(ClassifierFailed /\ path' # path /\ path # <<>>) =>
            path' = Append(path, "response_generator")]_vars

\* C11's case: the second classification (after a rewrite) failed and the
\* Responder ran next.
C11_Witness ==
    /\ pc = "END"
    /\ path = <<"supervisor", "rewriter", "supervisor", "response_generator">>
    /\ ClassifierFailed
    /\ state.rewriter_response # None

\* C12: when the Gateway raised on the Classifier call, the graph run still
\* ends through the Responder with a non-empty final_response, whatever the
\* Gateway did on the Responder's own call (text, failure, unexpected shape).
C12_NonEmptyAnswerAfterFailedClassification ==
    (pc = "END" /\ ClassifierFailed) =>
        /\ path[Len(path)] = "response_generator"
        /\ state.final_response # << >>

\* C13: the Responder's precedence.  With llm_final_response in tool_results
\* final_response is that value and no Gateway call is made; else with error
\* in tool_results final_response is that error text (no Gateway call
\* either); only otherwise the Gateway is called to synthesize a response.
C13_ResponderPrecedence ==
    [][(pc = "response_generator" /\ path' = Append(path, "response_generator")) =>
          LET tr == state.tool_results IN
          IF DictHas(tr, "llm_final_response")
          THEN /\ state'.final_response = DictGet(tr, "llm_final_response")
               /\ gw' = None
          ELSE IF DictHas(tr, "error")
          THEN /\ state'.final_response = DictGet(tr, "error")
               /\ gw' = None
          ELSE /\ gw' # None
               /\ gw'.prompt = create_response_messages(state)
               /\ gw'.kind \in {"text", "none", "raise"}
               /\ gw'.kind = "text" => state'.final_response = gw'.text]_vars

\* C13's case: the dispatcher left tool output and its final answer, and the
\* Responder returned that answer without a Gateway call of its own.
C13_Witness ==
    /\ pc = "END"
    /\ gw = None
    /\ Len(state.tool_results) >= 2
    /\ DictHas(state.tool_results, "llm_final_response")
    /\ state.final_response = DictGet(state.tool_results, "llm_final_response")
    /\ state.final_response # << >>

\* C13's other sentinel: the dispatcher's error text became the answer.
C13_ErrorAnswered ==
    /\ pc = "END"
    /\ gw = None
    /\ DictHas(state.tool_results, "error")
    /\ state.final_response = DictGet(state.tool_results, "error")

\* C14: every execution of the Responder appends to the History exactly one
\* user entry and then one assistant entry whose text is final_response, on
\* every path of the node (sentinel answer, error answer, synthesis,
\* unexpected reply shape, failed synthesis call).
C14_ResponderAppendsPair ==
    [][(pc = "response_generator" /\ path' = Append(path, "response_generator")) =>
          /\ Len(memory') = Len(memory) + 2
          /\ SubSeq(memory', 1, Len(memory)) = memory
          /\ memory'[Len(memory) + 1].type = "human"
          /\ memory'[Len(memory) + 2] = Msg("ai", state'.final_response)]_vars

\* The History entries the running turn has read: every message builder of
\* the nodes takes the last history_limit (or fewer) entries of memory.
HistoryRead ==
    IF pc \in Nodes /\ path # <<>>
    THEN {i \in 1..Len(memory) : i > Len(memory) - history_limit}
    ELSE {}

\* C15: the History is owned by the calling session: a turn submitted
\* through one session never reads entries appended by the turn of another
\* session of the process (nor, the same fact seen from the other side,
\* appends to the History another session reads).
C15_SessionIsolation ==
    /\ Len(owners) = Len(memory)
    /\ \A i \in HistoryRead : owners[i] = caller

\* C16: original_message is immutable: from the creation of the Turn State
\* to Terminal no node and no router call changes it, on success or failure.
C16_OriginalMessageImmutable ==
    [][(state # None /\ state' # None) =>
          state'.original_message = state.original_message]_vars

\* C16's case: a turn went through all four nodes, the Rewriter changed
\* current_message, and the graph run reached Terminal.
C16_Witness ==
    /\ pc = "END"
    /\ Count(path, "rewriter") >= 1
    /\ Count(path, "tool_selector") = 1
    /\ state.rewriter_response # None
    /\ state.current_message # state.original_message
    /\ state.original_message \in UserMessages

\* C17: iteration_count goes up by one on every Classifier visit, so the
\* iterations entry of the metadata is the number of times the Classifier
\* ran in the turn, also when a visit ended in a Gateway failure.
C17_IterationsCountVisits ==
    state # None =>
        /\ state.iteration_count = Count(path, "supervisor")
        /\ (pc = "END" /\ "iterations" \in DOMAIN state.metadata) =>
                state.metadata.iterations = Count(path, "supervisor")

\* C18: the rewrite field is assigned at most once per turn: once it is
\* present it is never assigned again and the Rewriter is never the next
\* node, also when the re-classification reports needs_rewrite again.
C18_RewriteSingleShot ==
    /\ []((state # None /\ state.rewriter_response # None) => pc # "rewriter")
    /\ [][(state # None /\ state.rewriter_response # None) =>
            /\ path' # Append(path, "rewriter")
            /\ state' # None => state'.rewriter_response = state.rewriter_response]_vars

\* C18's case: a rewrite is present, the re-classification asked for a
\* rewrite again, and the router went by the intent.
C18_Witness ==
    /\ pc = "response_generator"
    /\ path = <<"supervisor", "rewriter", "supervisor">>
    /\ state.rewriter_response # None
    /\ state.supervisor_decision.needs_rewrite
    /\ state.supervisor_decision.intent = "conversation"

\* C19: Terminal is reached only from the Responder: the Classifier always
\* leaves a Decision, so the router's own edge to Terminal is never taken,
\* and a graph run that completed has executed the Responder exactly once.
C19_TerminalOnlyFromResponder ==
    /\ (state # None /\ path # <<>>) => state.supervisor_decision # None
    /\ pc = "END" =>
          /\ path[Len(path)] = "response_generator"
          /\ Count(path, "response_generator") = 1

\* C19's case: the classification failed, the router still had a Decision
\* to go by, and the run completed through the Responder.
C19_Witness ==
    /\ pc = "END"
    /\ path = <<"supervisor", "response_generator">>
    /\ ClassifierFailed
    /\ gw.kind = "text"

\* The node order of C20, and its premise: one Rewriter execution, which
\* succeeded, and a re-classification with intent tool_required.
RewriteThenTools ==
    <<"supervisor", "rewriter", "supervisor", "tool_selector", "response_generator">>

RewrittenAndToolRequired ==
    /\ state # None
    /\ Len(path) >= 3
    /\ Count(path, "rewriter") = 1
    /\ state.rewriter_response # None
    /\ state.supervisor_decision.intent = "tool_required"

\* C20: when the first classification asks for a rewrite, the Rewriter
\* succeeds and the re-classification says tool_required, the nodes run in
\* the order Classifier, Rewriter, Classifier, ToolDispatcher, Responder,
\* Terminal; the second classification and the dispatcher work on the
\* rewritten message, and metadata.was_rewritten is true.
C20_RewriteThenToolsOrder ==
    RewrittenAndToolRequired =>
        LET rw == state.rewriter_response.rewritten_message IN
        /\ Len(path) <= 5
        /\ path = SubSeq(RewriteThenTools, 1, Len(path))
        /\ pc = Append(RewriteThenTools, "END")[Len(path) + 1]
        /\ state.current_message = rw
        /\ (Len(path) = 3 /\ loc = None) =>
              /\ gw.kind = "value"
              /\ gw.prompt[Len(gw.prompt)] = Msg("human", rw)
        /\ loc # None =>
              loc.messages[Len(LastN(memory, history_limit)) + 2] = Msg("human", rw)
        /\ pc = "END" =>
              /\ "was_rewritten" \in DOMAIN state.metadata
              /\ state.metadata.was_rewritten = TRUE

\* C21: when the first classification has needs_rewrite = false and an
\* intent other than tool_required, the turn goes Classifier, Responder,
\* Terminal (no Rewriter, no Tool-Dispatcher), and the metadata has the
\* classified intent, tools_used = [] and was_rewritten = false.
C21_DirectToResponder ==
    (/\ state # None
     /\ Count(path, "supervisor") = 1
     /\ ~state.supervisor_decision.needs_rewrite
     /\ state.supervisor_decision.intent # "tool_required") =>
        /\ path = SubSeq(<<"supervisor", "response_generator">>, 1, Len(path))
        /\ pc = <<"response_generator", "END">>[Len(path)]
        /\ pc = "END" =>
              /\ {"intent", "tools_used", "was_rewritten"} \subseteq DOMAIN state.metadata
              /\ state.metadata.intent = state.supervisor_decision.intent
              /\ state.metadata.tools_used = << >>
              /\ state.metadata.was_rewritten = FALSE

\* The scenario of C22: one Gateway reply so far, it asked for one tool, and
\* that tool returned its observation.
OneToolSucceeded ==
    /\ pc = "tool_selector"
    /\ loc # None
    /\ calls.bound = 1
    /\ gw # None
    /\ gw.kind = "calls"
    /\ Len(gw.tool_calls) = 1
    /\ Len(loc.tool_results) = 1

\* C22 (as the code has it): when the first Gateway reply of the
\* Tool-Dispatcher asks for one tool, the tool returns, and the next reply
\* has no tool requests, the loop ran exactly 2 iterations (one Gateway
\* invocation each, no forced final call) and tool_results holds the tool's
\* observation under the tool's name, followed by the text of the second
\* reply under llm_final_response.
C22_OneToolThenAnswer ==
    [][(OneToolSucceeded /\ gw'.kind = "text") =>
          /\ calls' = [bound |-> 2, final |-> 0, tools |-> 1]
          /\ pc' = "response_generator"
          /\ loc.tool_results[1][1] = gw.tool_calls[1].name
          /\ loc.tool_results[1][2] \in Observations
          /\ state'.tool_results =
                <<loc.tool_results[1], <<"llm_final_response", gw'.text>> >>]_vars

\* C22's case: one tool ran, the second reply was the answer.
C22_Witness ==
    /\ pc = "response_generator"
    /\ calls = [bound |-> 2, final |-> 0, tools |-> 1]
    /\ gw.kind = "text"
    /\ DictKeys(state.tool_results) = <<"get_timeseries", "llm_final_response">>
    /\ DictGet(state.tool_results, "llm_final_response") = gw.text

\* C22 as stated: in that scenario tool_results equals
\* {llm_final_response: text of the second reply} and the loop ran exactly
\* 1 iteration.
C22_OnlyFinalResponse ==
    [][(OneToolSucceeded /\ gw'.kind = "text") =>
          /\ calls'.bound = 1
          /\ state'.tool_results = << <<"llm_final_response", gw'.text>> >>]_vars

\* C23: metadata.tools_used is the list of the tool names invoked in the
\* turn: every element is the name of a tool the Tool-Dispatcher executed,
\* and no reserved key (llm_final_response, error) appears in it.
C23_ToolsUsedAreTools ==
    (pc = "END" /\ "tools_used" \in DOMAIN state.metadata) =>
        \A i \in 1..Len(state.metadata.tools_used) :
            /\ state.metadata.tools_used[i] \in ToolNames
            /\ state.metadata.tools_used[i] \notin {"llm_final_response", "error"}
            /\ calls.tools > 0

\* Texts: t contains the text e (as a run of consecutive tokens).
Contains(t, e) ==
    \E i \in 1..(Len(t) - Len(e) + 1) : SubSeq(t, i, i + Len(e) - 1) = e

\* C24: the answer text returned to the end user never carries raw
\* diagnostic text: whatever Gateway call or graph run failed, the returned
\* text does not contain the failure's detail string.
C24_NoDiagnosticInAnswer ==
    TurnEnded => \A e \in Details : ~Contains(result.text, e)

\* C25: a Gateway failure inside the Tool-Dispatcher (in the loop or at the
\* forced final call) makes the node return normally with a user-facing
\* error string under the key error, and the Responder then returns exactly
\* that string as final_response.
C25_DispatcherFailureAnswered ==
    /\ [][(pc = "tool_selector" /\ loc # None /\ gw'.kind = "raise") =>
            /\ path' = Append(path, "tool_selector")
            /\ pc' = "response_generator"
            /\ result' = result
            /\ state' # None
            /\ DictHas(state'.tool_results, "error")
            /\ DictGet(state'.tool_results, "error") =
                  <<"I encountered an error while processing your request: ">>
                  \o gw'.text]_vars
    /\ [][(/\ pc = "response_generator"
           /\ DictHas(state.tool_results, "error")
           /\ path' = Append(path, "response_generator")) =>
            /\ state'.final_response = DictGet(state.tool_results, "error")
            /\ pc' = "END"]_vars

\* C25's case: the forced final call failed after five rounds of tools, and
\* the Responder returned the stored error text.
C25_Witness ==
    /\ pc = "END"
    /\ calls.bound = 5
    /\ calls.final = 1
    /\ DictHas(state.tool_results, "error")
    /\ state.final_response = DictGet(state.tool_results, "error")
    /\ state.final_response # << >>

\* C26: the Turn State is created fresh for each inbound message: at the
\* start of every process_message call classification and rewrite are
\* absent, tool_results and final_response are empty and iteration_count is
\* 0, whatever earlier turns did; between turns no Turn State (and no local
\* of a node) is kept, so only the History goes from one turn to the next.
C26_TurnStateFresh ==
    /\ [](pc = "idle" => (state = None /\ loc = None))
    /\ [][(pc = "idle" /\ pc' = "supervisor") =>
            /\ state'.original_message \in UserMessages
            /\ state'.current_message = << >>
            /\ state'.supervisor_decision = None
            /\ state'.rewriter_response = None
            /\ state'.tool_results = << >>
            /\ state'.final_response = << >>
            /\ state'.metadata = << >>
            /\ state'.iteration_count = 0
            /\ memory' = memory]_vars

\* C26's case: a second turn starts after a first one that went through the
\* Rewriter and the Tool-Dispatcher and left its pair in the History.
C26_Witness ==
    /\ turn = 2
    /\ pc = "supervisor"
    /\ path = << >>
    /\ Len(memory) = 2
    /\ memory[1].content \in RewrittenMessages
    /\ state.iteration_count = 0
    /\ state.rewriter_response = None

\* The length of the messages tool_selector_node starts from: the system
\* prompt, the history taken from memory, the user's message.
DispatchPromptLen == Len(LastN(memory, history_limit)) + 2

\* The observation text the dispatcher writes for a request, by what
\* happened to it: a tool's text, the error text, or the not-found text.
IsObservationOf(content, name) ==
    IF name \in ToolNames
    THEN \/ content \in Observations
         \/ \E e \in Details : content = <<"Error executing ", name, ": ">> \o e
    ELSE content = <<"Tool ", name, " not found">>

\* C27: in the Tool-Dispatcher every reply with tool requests extends the
\* message sequence by the model's request message followed by exactly one
\* observation message per request, in request order, each with the
\* correlation id of its request, whether the tool succeeded, failed (text
\* "Error executing {name}: {detail}") or was not found.
C27_RequestThenObservations ==
    loc # None =>
        LET msgs == loc.messages
            base == DispatchPromptLen
            requests == {k \in (base + 1)..Len(msgs) : msgs[k].type = "ai"}
        IN /\ Cardinality(requests) = loc.iteration
           /\ Len(msgs) > base => (base + 1) \in requests
           /\ \A k \in requests :
                LET tcs == msgs[k].tool_calls IN
                /\ Len(tcs) > 0
                /\ k + Len(tcs) <= Len(msgs)
                /\ \A j \in 1..Len(tcs) :
                      /\ msgs[k + j].type = "tool"
                      /\ msgs[k + j].tool_call_id = tcs[j].id
                      /\ IsObservationOf(msgs[k + j].content, tcs[j].name)
                /\ (k + Len(tcs) = Len(msgs)) \/ ((k + Len(tcs) + 1) \in requests)

\* C27's case: two rounds of requests are in the sequence, with a failed
\* tool and a name that is not registered among them.
C27_Witness ==
    /\ loc # None
    /\ loc.iteration = 2
    /\ \E k \in 1..Len(loc.messages) :
          /\ loc.messages[k].type = "tool"
          /\ loc.messages[k].content[1] = "Error executing "
    /\ \E k \in 1..Len(loc.messages) :
          /\ loc.messages[k].type = "tool"
          /\ loc.messages[k].content[1] = "Tool "
    /\ loc.messages[Len(loc.messages)].content \in Observations

\* The positions in msgs of the observations of successful executions of the
\* tool called name (an observation that is a tool's own text, answering a
\* request for that name).
Successes(msgs, name) ==
    {k \in 1..Len(msgs) :
        /\ msgs[k].type = "tool"
        /\ msgs[k].content \in Observations
        /\ \E a \in 1..(k - 1) :
              /\ "tool_calls" \in DOMAIN msgs[a]
              /\ \E j \in 1..Len(msgs[a].tool_calls) :
                    /\ msgs[a].tool_calls[j].id = msgs[k].tool_call_id
                    /\ msgs[a].tool_calls[j].name = name}

Max(S) == CHOOSE x \in S : \A y \in S : y <= x

\* Every name a Gateway reply asks for in the model.
RequestedNames == ToolNames \cup {"no_such_tool"}

\* C28: when the Tool-Dispatcher returns without a Gateway failure,
\* tool_results has an entry for a tool name iff that tool was executed
\* successfully at least once during the dispatch, and the entry is the
\* observation of the last successful execution; failed executions and
\* requests for names that are not registered add no entry.
C28_LastSuccessfulObservation ==
    [][(/\ pc = "tool_selector"
        /\ loc # None
        /\ path' = Append(path, "tool_selector")
        /\ gw'.kind = "text") =>
          LET tr == state'.tool_results
              msgs == loc.messages
          IN /\ \A n \in RequestedNames :
                   /\ DictHas(tr, n) <=> (Successes(msgs, n) # {})
                   /\ DictHas(tr, n) =>
                         DictGet(tr, n) = msgs[Max(Successes(msgs, n))].content
             /\ \A i \in 1..Len(tr) :
                   tr[i][1] \in RequestedNames \cup {"llm_final_response"}]_vars

\* C28's case: get_timeseries returned one text, later another, and failed
\* after that; the entry is the later text.  (gw.prompt is the message
\* sequence of the dispatcher's last Gateway call.)
C28_Witness ==
    /\ pc = "response_generator"
    /\ gw # None
    /\ gw.kind = "text"
    /\ DictHas(state.tool_results, "get_timeseries")
    /\ LET won == Successes(gw.prompt, "get_timeseries") IN
          /\ Cardinality(won) >= 2
          /\ \E k \in won : gw.prompt[k].content # gw.prompt[Max(won)].content
          /\ DictGet(state.tool_results, "get_timeseries") = gw.prompt[Max(won)].content
          /\ \E k \in (Max(won) + 1)..Len(gw.prompt) :
                /\ gw.prompt[k].type = "tool"
                /\ gw.prompt[k].content[1] = "Error executing "

\* C29: whenever the Tool-Dispatcher node returns, tool_results contains
\* exactly one of the two sentinel keys llm_final_response and error; with
\* error it has no other entry (the observations recorded before the Gateway
\* failure are discarded).
C29_ExactlyOneSentinel ==
    [][(pc = "tool_selector" /\ path' = Append(path, "tool_selector")) =>
          /\ pc' = "response_generator"
          /\ state' # None
          /\ DictHas(state'.tool_results, "llm_final_response")
                # DictHas(state'.tool_results, "error")
          /\ DictHas(state'.tool_results, "error") => Len(state'.tool_results) = 1
          /\ DictHas(state'.tool_results, "error") <=> (gw'.kind = "raise")]_vars

\* C29's case: tools had returned observations when a Gateway call of the
\* loop failed; only the error entry is left.
C29_Witness ==
    /\ pc = "response_generator"
    /\ gw # None
    /\ gw.kind = "raise"
    /\ \E n \in ToolNames : Successes(gw.prompt, n) # {}
    /\ DictKeys(state.tool_results) = <<"error">>

\* C30: the Responder makes its synthesis Gateway call only on turns in
\* which the Tool-Dispatcher did not run, and then tool_results is empty; on
\* every turn that went through the Tool-Dispatcher it makes no Gateway call.
C30_SynthesisOnlyWithoutDispatcher ==
    [][(pc = "response_generator" /\ path' = Append(path, "response_generator")) =>
          /\ (gw' # None) <=> (Count(path, "tool_selector") = 0)
          /\ (gw' # None) => state.tool_results = << >>]_vars

\* C30's case: a turn went through the dispatcher, tools ran, and the
\* Responder finished the turn without a Gateway call.
C30_Witness ==
    /\ pc = "END"
    /\ Count(path, "tool_selector") = 1
    /\ calls.tools > 0
    /\ gw = None
    /\ state.final_response # << >>

\* C30's other side: without the dispatcher the Responder called the Gateway
\* and had no tool results to summarize.
C30_Synthesized ==
    /\ pc = "END"
    /\ Count(path, "tool_selector") = 0
    /\ gw # None
    /\ gw.kind = "text"
    /\ state.tool_results = << >>

\* C31: on success the Classifier analyzes current_message if it is
\* non-empty and original_message otherwise, stores the returned Decision as
\* classification (over an earlier one), and leaves current_message equal to
\* the message it analyzed.
C31_ClassifierAnalyzesCurrent ==
    [][(pc = "supervisor" /\ path' = Append(path, "supervisor") /\ gw'.kind = "value") =>
          LET analyzed == IF state.current_message # << >>
                          THEN state.current_message
                          ELSE state.original_message
          IN /\ gw'.prompt[Len(gw'.prompt)] = Msg("human", analyzed)
             /\ state'.supervisor_decision = gw'.text
             /\ state'.current_message = analyzed]_vars

\* C31's case: the second classification analyzed the rewritten message and
\* its Decision replaced the first one.
C31_Witness ==
    /\ path = <<"supervisor", "rewriter", "supervisor">>
    /\ gw.kind = "value"
    /\ state.rewriter_response # None
    /\ gw.prompt[Len(gw.prompt)] = Msg("human", state.rewriter_response.rewritten_message)
    /\ state.current_message = state.rewriter_response.rewritten_message
    /\ ~state.supervisor_decision.needs_rewrite
    /\ state.supervisor_decision = gw.text

\* C32: if the Rewriter's Gateway call fails, current_message after the node
\* equals current_message before the node, in every state in which the
\* Rewriter can be entered.
C32_FailedRewriteKeepsMessage ==
    [][(pc = "rewriter" /\ path' = Append(path, "rewriter") /\ gw'.kind = "raise") =>
          /\ state' # None
          /\ state'.current_message = state.current_message]_vars

\* C32's case: the Rewriter failed and the message the Classifier had
\* analyzed is still the current message.
C32_Witness ==
    /\ pc = "supervisor"
    /\ path = <<"supervisor", "rewriter">>
    /\ gw.kind = "raise"
    /\ state.rewriter_response = None
    /\ state.current_message = state.original_message
    /\ state.current_message # << >>

\* C33: the user entry the Responder appends to the History is the user's
\* message of the turn: it equals original_message, also on turns with a
\* rewrite and on turns where the Classifier's Gateway call failed.
C33_UserEntryIsOriginal ==
    [][(pc = "response_generator" /\ memory' # memory) =>
          memory'[Len(memory) + 1] = Msg("human", state.original_message)]_vars

\* C34: the History, final_response and metadata are written only by the
\* Responder: the Classifier, the Rewriter, the Tool-Dispatcher and the
\* router leave them unchanged on success and failure, so before the
\* Responder executes final_response (and metadata) is empty and the History
\* is as the turn found it.
C34_OnlyResponderWrites ==
    /\ []((state # None /\ Count(path, "response_generator") = 0) =>
            (state.final_response = << >> /\ state.metadata = << >>))
    /\ [][(pc \in {"supervisor", "rewriter", "tool_selector"} /\ state' # None) =>
            /\ memory' = memory
            /\ state'.final_response = state.final_response
            /\ state'.metadata = state.metadata]_vars
    /\ [][memory' # memory => path' = Append(path, "response_generator")]_vars

\* C34's case: the Classifier (twice), the Rewriter and the Tool-Dispatcher
\* have run in a second turn, and the Responder has not yet.
C34_Witness ==
    /\ pc = "response_generator"
    /\ turn = 2
    /\ Len(path) = 4
    /\ Len(memory) = 2
    /\ state.final_response = << >>
    /\ state.tool_results # << >>

\* C35: the Tool-Dispatcher changes only tool_results: on every path (final
\* answer, forced final answer, Gateway failure) original_message,
\* current_message, classification, rewrite and iteration_count stay as they
\* were, and tool_results is empty until the Tool-Dispatcher has run.
C35_DispatcherWritesOnlyToolResults ==
    /\ []((state # None /\ Count(path, "tool_selector") = 0) => state.tool_results = << >>)
    /\ [][(pc = "tool_selector" /\ state' # None) =>
            /\ state'.original_message = state.original_message
            /\ state'.current_message = state.current_message
            /\ state'.supervisor_decision = state.supervisor_decision
            /\ state'.rewriter_response = state.rewriter_response
            /\ state'.iteration_count = state.iteration_count
            /\ state'.final_response = state.final_response
            /\ state'.metadata = state.metadata]_vars

\* C35's case: the forced final answer was stored after tools had run on a
\* rewritten message.
C35_Witness ==
    /\ pc = "response_generator"
    /\ calls.final = 1
    /\ calls.tools > 0
    /\ gw.kind = "text"
    /\ state.rewriter_response # None
    /\ state.current_message = state.rewriter_response.rewritten_message
    /\ state.iteration_count = 2

\* The History entries of mem appear in msgs as the limit most recent ones
\* only, in their order, right after the system message; the user's message
\* is the first human message after them, and nothing else of the History
\* appears anywhere in msgs.
HistoryWindow(msgs, mem, limit, user_message) ==
    LET k == IF Len(mem) <= limit THEN Len(mem) ELSE limit
        after == {j \in (k + 2)..Len(msgs) : msgs[j].type = "human"}
    IN /\ k <= limit
       /\ Len(msgs) >= k + 2
       /\ msgs[1].type = "system"
       /\ \A i \in 1..k : msgs[1 + i] = mem[Len(mem) - k + i]
       /\ \A j \in (k + 2)..Len(msgs) : \A i \in 1..Len(mem) : msgs[j].content # mem[i].content
       /\ after # {}
       /\ \A j \in after : msgs[j] = Msg("human", user_message)

\* C36: the message sequence built for the Classifier, the Rewriter and the
\* Tool-Dispatcher holds at most the 6 most recent History entries, the one
\* built for the Responder's synthesis at most the 2 most recent, in their
\* original order, after the system instructions and before the current user
\* message (the last message for the Classifier, the Rewriter and the
\* Responder).
C36_HistoryWindows ==
    /\ [][(pc = "supervisor" /\ gw' # None /\ gw' # gw) =>
            /\ HistoryWindow(gw'.prompt, memory, 6,
                             IF state.current_message # << >> THEN state.current_message
                             ELSE state.original_message)
            /\ gw'.prompt[Len(gw'.prompt)].type = "human"]_vars
    /\ [][(pc = "rewriter" /\ gw' # None /\ gw' # gw) =>
            /\ HistoryWindow(gw'.prompt, memory, 6, state.original_message)
            /\ gw'.prompt[Len(gw'.prompt)].type = "human"]_vars
    /\ [][(pc = "tool_selector" /\ loc = None /\ loc' # None) =>
            /\ HistoryWindow(loc'.messages, memory, 6, state.current_message)
            /\ loc'.messages[Len(loc'.messages)].type = "human"]_vars
    /\ [][(pc = "tool_selector" /\ gw' # None /\ gw' # gw) =>
            HistoryWindow(gw'.prompt, memory, 6, state.current_message)]_vars
    /\ [][(pc = "response_generator" /\ gw' # None /\ gw' # gw) =>
            /\ HistoryWindow(gw'.prompt, memory, 2, state.original_message)
            /\ gw'.prompt[Len(gw'.prompt)].type = "human"]_vars

\* C36's case: with 8 entries in the History the Classifier and then the
\* Responder's synthesis were called; the synthesis saw entries 7 and 8.
C36_Witness ==
    /\ path = <<"supervisor", "response_generator">>
    /\ Len(memory) = 10
    /\ gw # None
    /\ gw.kind = "text"
    /\ Len(gw.prompt) = 4
    /\ gw.prompt[2].content = <<"entry", "7">>
    /\ gw.prompt[3].content = <<"entry", "8">>

\* user, assistant, user, assistant, ...
Alternates(mem) ==
    \A i \in 1..Len(mem) : mem[i].type = (IF i % 2 = 1 THEN "human" ELSE "ai")

\* C37: with the turns of a session run one after another, the History is
\* always a strict alternation user, assistant, ..., and it grows by exactly
\* 2 entries in every turn whose Responder did its history update (and by
\* none in the other turns).
C37_SerializedAlternation ==
    /\ [](Alternates(memory) /\ Len(memory) <= 2 * turn)
    /\ [][(pc = "response_generator" /\ path' = Append(path, "response_generator")) =>
            IF gw' # None /\ gw'.kind = "raise"
            THEN memory' = memory
            ELSE /\ Len(memory') = Len(memory) + 2
                 /\ SubSeq(memory', 1, Len(memory)) = memory]_vars
    /\ [][(pc # "response_generator") => memory' = memory]_vars

\* C37's case: two turns have ended, each with its history update.
C37_Witness ==
    /\ pc = "idle"
    /\ turn = 2
    /\ Len(memory) = 4
    /\ memory[3].type = "human"
    /\ memory[4].type = "ai"

\* C40: process_message on an agent whose initialize() has not completed
\* fails with a RuntimeError before any Turn State exists: no node runs and
\* the History stays as it was.
C40_UninitializedCallRaises ==
    /\ [](~is_initialized => (state = None /\ pc = "idle" /\ path = << >> /\ memory = << >>))
    /\ [][(pc = "idle" /\ ~is_initialized /\ turn' # turn) =>
            /\ result' = [raised |-> "RuntimeError"]
            /\ state' = None
            /\ pc' = "idle"
            /\ path' = path
            /\ steps' = steps
            /\ memory' = memory
            /\ ~is_initialized']_vars

\* C40's case: a call was made before initialize() and raised.
C40_Witness ==
    /\ ~is_initialized
    /\ turn = 1
    /\ pc = "idle"
    /\ result = [raised |-> "RuntimeError"]
    /\ state = None
    /\ memory = << >>

\* C38: the History is not protected against concurrent turns: a thread's
\* append is never held back while another thread is between its two
\* appends, and an append made then comes between that thread's user entry
\* and its assistant entry and leaves a History that does not alternate.
C38_HistoryUnprotected ==
    /\ [](\A t \in Sessions : threads[t].pc = "add_user_message" => ENABLED add_user_message(t))
    /\ [][\A t \in Sessions : \A u \in Sessions \ {t} :
            (/\ threads[u].pc = "add_ai_message"
             /\ threads[t].pc \in {"add_user_message", "add_ai_message"}
             /\ threads'[t].pc # threads[t].pc)
            => (/\ ~Alternates(memory')
                /\ Len(memory') = Len(memory) + 1
                /\ owners'[Len(owners')] = t
                /\ \E i \in 1..Len(memory) : owners[i] = u /\ memory[i].type = "human")]_vars

\* C38's case: two turns interleaved their appends: user, user, assistant,
\* assistant, the entries of one turn separated by an entry of the other.
C38_Witness ==
    /\ Len(memory) = 4
    /\ memory[1].type = "human" /\ memory[2].type = "human"
    /\ memory[3].type = "ai" /\ memory[4].type = "ai"
    /\ owners[1] # owners[2]
    /\ owners[3] = owners[1]
    /\ ~Alternates(memory)

\* The agents get_chat_agent had built that no reset_agents has dropped.
LiveAgents ==
    {AgentRef(i) : i \in {j \in 1..Len(agents) :
                            agents[j].by = "get_chat_agent" /\ ~agents[j].retired}}

\* C39: get_chat_agent returns the same agent, with the same History, on
\* every call until reset_agents, whatever config later calls pass; between
\* two resets at most one agent is ever created, also with get_chat_agent
\* called from two threads at once; after reset_agents the next call builds
\* a new agent with an empty History.
C39_OneAgentBetweenResets ==
    /\ [](Cardinality(LiveAgents) <= 1)
    /\ [](\A t \in Sessions : \A u \in Sessions :
            (threads[t].agent \in LiveAgents /\ threads[u].agent \in LiveAgents)
              => threads[t].agent = threads[u].agent)
    /\ [][(chat_agent' # chat_agent /\ chat_agent' # None) =>
            /\ chat_agent = None
            /\ agents[chat_agent'.agent].memory = << >>]_vars

====
